---- MODULE Spec2Model ----
(***************************************************************************)
(* Model of the jewelry chat backend (src/api/chat.js and its earlier      *)
(* revisions): the VideoGenerationManager queue in front of the video      *)
(* provider, and the chat handler that decides on, and drives, generation. *)
(* Next to them: the storage bucket that the handlers save their           *)
(* artifacts in, the CRM sync endpoint (part_006) with the contact it      *)
(* reads and writes, the analytics endpoint (src/api/analytics.js) with    *)
(* its stats blob, and the share endpoint (part_005) with the              *)
(* conversations it stores.                                                *)
(*                                                                         *)
(* JavaScript runs one synchronous stretch of code at a time; control can  *)
(* change hands only at an await.  Every action below is one such stretch: *)
(* from the resumption of an await (or the arrival of a call) up to the    *)
(* next await.                                                             *)
(*                                                                         *)
(* Time.  The clock `now` models Date.now().  The source's durations are   *)
(* scaled to small numbers of ticks; the scaling keeps the relations the   *)
(* rate limiter depends on:                                                *)
(*     source (ms)                         model (ticks)                   *)
(*     post-success delay        100       PostDelay            1          *)
(*     minRequestInterval        600       minRequestInterval   2          *)
(*     non-quota retry delay    2000       RetryDelay           2          *)
(*     quota backoff base      10000       BackoffBase          3          *)
(*     maxRequestsPerMinute      100       maxRequestsPerMinute 3          *)
(*     windowDuration          60000       windowDuration       6          *)
(*     queue timeout          300000       QueueTimeout         8          *)
(*   100 < 600 <= 2000 < 10000 < 60000 < 300000 keeps its order,           *)
(*   maxRequestsPerMinute * minRequestInterval = windowDuration            *)
(*   (100 * 600 = 60000) and (maxRetries - 1) * RetryDelay >               *)
(*   minRequestInterval (2 * 2000 > 600) hold in both columns.             *)
(***************************************************************************)
EXTENDS Integers, Naturals, Sequences, FiniteSets, TLC

\* ---------------------------------------------------------------- bounds
\* number of generateVideo calls explored
MaxEntries == 4
\* last tick of the clock explored
MaxTime == 12
\* number of generateVideo calls explored under the fairness conditions
MaxFairEntries == 2
\* number of chat requests followed through the handler
MaxRequests == 1
\* number of generateVideo calls of other requests next to those
MaxOtherVideo == 1
\* length of an oracle reply, in tokens
MaxReplyLen == 2
\* number of turns of a caller-supplied conversation history
MaxHistoryLen == 2
\* longest oracle reply, in tokens, of the requests that follow the prompt
MaxLongReplyLen == 3
\* number of uploads to the bucket, and milliseconds of the clock, explored
MaxUploads == 3
MaxStoreTime == 2
\* number of CRM sync calls, and largest count reported in sessionData
MaxSyncs == 2
MaxSessionCount == 1
\* number of analytics calls, and days of the clock, explored
MaxTracks == 2
MaxDays == 3
\* number of share calls, and ticks of the clock, explored
MaxShares == 2
MaxShareTime == 3

\* ------------------------------------------------------ program constants
minRequestInterval == 2
maxRetries == 3
maxRequestsPerMinute == 3
windowDuration == 6
QueueTimeout == 8
PostDelay == 1
RetryDelay == 2
BackoffBase == 3
\* Date.now() at construction: far more than minRequestInterval after the
\* epoch, so that the first request never waits on lastRequestTime = 0
Epoch == minRequestInterval

VARIABLES
    now,              \* Date.now()
    requestQueue,     \* this.requestQueue: entries [id, timestamp]
    processing,       \* this.processing
    lastRequestTime,  \* this.lastRequestTime
    requestCount,     \* this.requestCount
    windowStart,      \* this.windowStart
    loops,            \* the processQueue invocations suspended at an await
    nextId,           \* identity of the next generateVideo call
    settled,          \* per entry: the resolve/reject calls made on its promise
    dispatchLog,      \* the calls of generateVideoWithRetry made by a drain loop
    handled,          \* entries in the order of their dispatch or rejection as stale
    resetCount,       \* number of resetQuotaWindow calls so far
    providerCalls,    \* the entries for which model.generateContent was called
    reqs,             \* the chat requests: position in the handler and its locals
    uploads,          \* the uploadImageToStorage calls of the handlers, in order
    bucket,           \* the objects of the storage bucket: filename and content
    contact,          \* the CRM contact of one email address
    syncs,            \* the CRM sync calls: position in the handler and its locals
    stats,            \* the analytics blob analytics/global-stats.json
    INITIAL_STATS,    \* the module-level object INITIAL_STATS of analytics.js
    tracks,           \* the analytics calls: position in the handler and its locals
    shared,           \* the stored shared conversations, by share id
    shares            \* the share calls: position in the handler and its locals

vmVars == <<requestQueue, processing, lastRequestTime, requestCount, windowStart,
            loops, nextId, settled, dispatchLog, handled, resetCount, providerCalls>>

\* the state outside the chat handler and its queue
svcVars == <<uploads, bucket, contact, syncs, stats, INITIAL_STATS, tracks,
             shared, shares>>

statVars == <<stats, INITIAL_STATS, tracks>>

shareVars == <<shared, shares>>

Ids == 1..(MaxEntries + 1)

Pow2(n) == IF n = 0 THEN 1 ELSE IF n = 1 THEN 2 ELSE 4

\* ------------------------------------------------- the manager's state
\* The synchronous stretches are operators on a record of the manager's
\* fields; cur is the processQueue invocation that is running.
NoLoop == [pc |-> "done", id |-> 0, timestamp |-> 0, wakeAt |-> 0,
           attempt |-> 0, variant |-> 0]

Manager == [q |-> requestQueue, processing |-> processing, last |-> lastRequestTime,
            count |-> requestCount, ws |-> windowStart, cur |-> NoLoop,
            settled |-> settled, dlog |-> dispatchLog, handled |-> handled,
            resets |-> resetCount, calls |-> providerCalls]

\* resolve(...) or reject(...) of the entry's promise
Settle(s, id, outcome) == [s EXCEPT !.settled[id] = Append(@, outcome)]

resetQuotaWindow(s) == [s EXCEPT !.count = 0, !.ws = now, !.resets = @ + 1]

\* checkQuotaAvailability: the state after its possible reset; its result is
\* QuotaAvailable of that state
checkQuotaAvailability(s) ==
    IF now - s.ws > windowDuration THEN resetQuotaWindow(s) ELSE s

\* QuotaAvailable that lets one request more through
QuotaAvailableOneMore(s) == s.count <= maxRequestsPerMinute

QuotaAvailable(s) == s.count < maxRequestsPerMinute

incrementRequestCount(s) == [s EXCEPT !.count = @ + 1]

\* generateSingleVideo up to its first await: the call of the first variant
generateSingleVideo(s) ==
    [s EXCEPT !.cur.pc = "calling", !.cur.variant = 1,
              !.calls = @ \cup {s.cur.id}]

\* line 364: the drain loop hands the entry to generateVideoWithRetry
Dispatch(s) ==
    generateSingleVideo(
        [s EXCEPT !.dlog = Append(@, [id |-> s.cur.id, t |-> now, resets |-> s.resets]),
                  !.handled = Append(@, s.cur.id),
                  !.cur.attempt = 0])

\* lines 356-364
QuotaStep(s) ==
    LET s1 == checkQuotaAvailability(s)
    IN IF QuotaAvailable(s1)
       THEN Dispatch(s1)
       ELSE [s1 EXCEPT !.cur.pc = "quotaWait",
                       !.cur.wakeAt = now + (windowDuration - (now - s1.ws))]

\* RateLimitStep without the minimum-interval sleep
RateLimitStepNoWait(s) == QuotaStep(s)

\* RateLimitStep that sleeps one tick short of the remainder
RateLimitStepShort(s) ==
    LET timeSinceLastRequest == now - s.last
    IN IF timeSinceLastRequest < minRequestInterval - 1
       THEN [s EXCEPT !.cur.pc = "rateWait",
                      !.cur.wakeAt = now + (minRequestInterval - 1 - timeSinceLastRequest)]
       ELSE QuotaStep(s)

\* lines 347-354
RateLimitStep(s) ==
    LET timeSinceLastRequest == now - s.last
    IN IF timeSinceLastRequest < minRequestInterval
       THEN [s EXCEPT !.cur.pc = "rateWait",
                      !.cur.wakeAt = now + (minRequestInterval - timeSinceLastRequest)]
       ELSE QuotaStep(s)

\* IsStale with the operands of the subtraction swapped
IsStaleSwapped(e) == e.timestamp - now > QueueTimeout

IsStale(e) == now - e.timestamp > QueueTimeout

\* lines 337-345 and 378: the head of the while loop
RECURSIVE LoopTop(_)
LoopTop(s) ==
    IF s.q = <<>>
    THEN [s EXCEPT !.processing = FALSE, !.cur = NoLoop]
    ELSE LET e  == Head(s.q)
             s1 == [s EXCEPT !.q = Tail(@),
                             !.cur = [NoLoop EXCEPT !.pc = "run", !.id = e.id,
                                                    !.timestamp = e.timestamp]]
         IN IF IsStale(e)
            THEN LoopTop(Settle([s1 EXCEPT !.handled = Append(@, e.id)], e.id, "timeout"))
            ELSE RateLimitStep(s1)

\* ProcessQueueGuard that forgets the processing flag
ProcessQueueGuardNoFlag(s) == s.q # <<>>

\* line 332
ProcessQueueGuard(s) == ~s.processing /\ s.q # <<>>

\* processQueue from its call to its first await
processQueue(s) ==
    IF ProcessQueueGuard(s)
    THEN LoopTop([s EXCEPT !.processing = TRUE])
    ELSE s

\* An error is what its handling depends on: "quota" is an error whose
\* message contains 429 or Quota exceeded (line 413), "error" another error
\* of an external call (the provider or the upload), "noVideo" the error
\* thrown at line 523.
IsQuotaError(error) == error = "quota"

\* Rejected that records the failed request like a successful one
RejectedRecords(s, outcome) ==
    LoopTop(Settle(incrementRequestCount([s EXCEPT !.last = now]), s.cur.id, outcome))

\* lines 372-375: the catch of the drain loop, then the next iteration
Rejected(s, outcome) == LoopTop(Settle(s, s.cur.id, outcome))

\* AttemptFailed that sleeps and retries after the last attempt as well
AttemptFailedAlwaysRetries(s, error) ==
    IF IsQuotaError(error)
    THEN [s EXCEPT !.cur.pc = "backoff",
                   !.cur.wakeAt = now + Pow2(s.cur.attempt) * BackoffBase]
    ELSE [s EXCEPT !.cur.pc = "retryDelay", !.cur.wakeAt = now + RetryDelay]

\* AttemptFailed whose backoff does not grow
AttemptFailedFixedBackoff(s, error) ==
    IF IsQuotaError(error)
    THEN IF s.cur.attempt < maxRetries - 1
         THEN [s EXCEPT !.cur.pc = "backoff", !.cur.wakeAt = now + BackoffBase]
         ELSE Rejected(s, "quotaExceeded")
    ELSE IF s.cur.attempt = maxRetries - 1
         THEN Rejected(s, error)
         ELSE [s EXCEPT !.cur.pc = "retryDelay", !.cur.wakeAt = now + RetryDelay]

\* AttemptFailed that rejects with the quota error whatever the last error
AttemptFailedAlwaysQuotaError(s, error) ==
    IF s.cur.attempt < maxRetries - 1
    THEN IF IsQuotaError(error)
         THEN [s EXCEPT !.cur.pc = "backoff",
                        !.cur.wakeAt = now + Pow2(s.cur.attempt) * BackoffBase]
         ELSE [s EXCEPT !.cur.pc = "retryDelay", !.cur.wakeAt = now + RetryDelay]
    ELSE Rejected(s, "quotaExceeded")

\* generateVideoWithRetry, lines 410-433: generateSingleVideo has thrown
\* error; the last attempt throws the quota-exceeded error of line 423 or
\* rethrows error (line 428)
AttemptFailed(s, error) ==
    IF IsQuotaError(error)
    THEN IF s.cur.attempt < maxRetries - 1
         THEN [s EXCEPT !.cur.pc = "backoff",
                        !.cur.wakeAt = now + Pow2(s.cur.attempt) * BackoffBase]
         ELSE Rejected(s, "quotaExceeded")
    ELSE IF s.cur.attempt = maxRetries - 1
         THEN Rejected(s, error)
         ELSE [s EXCEPT !.cur.pc = "retryDelay", !.cur.wakeAt = now + RetryDelay]

\* generateSingleVideo, lines 463-496: model.generateContent has rejected
\* with error
VariantFailed(s, error) ==
    IF s.cur.variant < 3
    THEN [s EXCEPT !.cur.variant = @ + 1, !.calls = @ \cup {s.cur.id}]
    ELSE AttemptFailed(s, error)

\* Succeeded with a throw after resolve(result), caught by the loop's catch
SucceededThenRejected(s) ==
    LET s1 == incrementRequestCount([s EXCEPT !.last = now])
    IN [Settle(Settle(s1, s.cur.id, "resolved"), s.cur.id, "error")
            EXCEPT !.cur.pc = "postDelay", !.cur.wakeAt = now + PostDelay]

\* lines 365-370: the entry's video has been produced
Succeeded(s) ==
    LET s1 == incrementRequestCount([s EXCEPT !.last = now])
    IN [Settle(s1, s.cur.id, "resolved") EXCEPT !.cur.pc = "postDelay",
                                                 !.cur.wakeAt = now + PostDelay]

\* ---------------------------------------------------------------- actions
\* the state after a stretch run by loop i (0: a stretch that may start one)
Commit(s, i) ==
    /\ requestQueue' = s.q
    /\ processing' = s.processing
    /\ lastRequestTime' = s.last
    /\ requestCount' = s.count
    /\ windowStart' = s.ws
    /\ settled' = s.settled
    /\ dispatchLog' = s.dlog
    /\ handled' = s.handled
    /\ resetCount' = s.resets
    /\ providerCalls' = s.calls
    /\ loops' = LET rest == IF i = 0 THEN loops
                            ELSE SubSeq(loops, 1, i - 1) \o SubSeq(loops, i + 1, Len(loops))
                IN IF s.cur.pc = "done" THEN rest ELSE rest \o <<s.cur>>

Running(i) == [Manager EXCEPT !.cur = loops[i]]

\* generateVideo that puts the entry at the front of the queue
generateVideoUnshift(s, id) ==
    processQueue([s EXCEPT !.q = <<[id |-> id, timestamp |-> now]>> \o @])

\* generateVideo that pushes the entry and does not call processQueue
generateVideoOnlyPushes(s, id) ==
    [s EXCEPT !.q = Append(@, [id |-> id, timestamp |-> now])]

\* generateVideo, lines 324-329: push, then processQueue
generateVideo(s, id) ==
    processQueue([s EXCEPT !.q = Append(@, [id |-> id, timestamp |-> now])])

Arrival(limit) ==
    /\ nextId <= limit
    /\ Commit(generateVideo(Manager, nextId), 0)
    /\ nextId' = nextId + 1
    /\ UNCHANGED <<now, reqs, svcVars>>

\* a chat request, not modelled further, reaches generateVideoWithVertex
GenerateVideo == Arrival(MaxEntries)

TimerPcs == {"rateWait", "quotaWait", "backoff", "retryDelay", "postDelay"}

\* a timer fires in the tick it is due
TimerDue == \E i \in 1..Len(loops) :
    loops[i].pc \in TimerPcs /\ now >= loops[i].wakeAt

Tick ==
    /\ now < MaxTime
    /\ ~TimerDue
    /\ now' = now + 1
    /\ UNCHANGED <<vmVars, reqs, svcVars>>

\* line 406: attempt++ and the test of the for loop; a loop that ran out
\* would make generateVideoWithRetry return undefined, which line 367 passes
\* to resolve
NextAttempt(s) ==
    LET s1 == [s EXCEPT !.cur.attempt = @ + 1]
    IN IF s1.cur.attempt < maxRetries
       THEN generateSingleVideo(s1)
       ELSE LET s2 == incrementRequestCount([s1 EXCEPT !.last = now])
            IN [Settle(s2, s.cur.id, "undefined") EXCEPT !.cur.pc = "postDelay",
                                                         !.cur.wakeAt = now + PostDelay]

\* the code after the setTimeout await at which the loop is suspended: line
\* 356 after the sleep of line 353, line 361 after that of line 360, the next
\* attempt after those of lines 418 and 432, the next iteration after line 370
AfterTimer(s) ==
    CASE s.cur.pc = "rateWait" -> QuotaStep(s)
      [] s.cur.pc = "quotaWait" -> Dispatch(resetQuotaWindow(s))
      [] s.cur.pc \in {"backoff", "retryDelay"} -> NextAttempt(s)
      [] s.cur.pc = "postDelay" -> LoopTop(s)

TimerFires(i) ==
    /\ loops[i].pc \in TimerPcs
    /\ now >= loops[i].wakeAt
    /\ Commit(AfterTimer(Running(i)), i)
    /\ UNCHANGED <<now, nextId, reqs, svcVars>>

\* model.generateContent settles: a response with a video payload, a response
\* without one, a quota error (429 / Quota exceeded) or another error
AfterProvider(s, outcome) ==
    CASE outcome = "video" -> [s EXCEPT !.cur.pc = "uploading"]
      [] outcome = "empty" -> AttemptFailed(s, "noVideo")
      [] outcome = "quota" -> VariantFailed(s, "quota")
      [] outcome = "error" -> VariantFailed(s, "error")

ProviderReturns(i, outcome) ==
    /\ loops[i].pc = "calling"
    /\ Commit(AfterProvider(Running(i), outcome), i)
    /\ UNCHANGED <<now, nextId, reqs, svcVars>>

\* uploadImageToStorage in processVideoResponse settles
AfterUpload(s, ok) == IF ok THEN Succeeded(s) ELSE AttemptFailed(s, "error")

UploadReturns(i, ok) ==
    /\ loops[i].pc = "uploading"
    /\ Commit(AfterUpload(Running(i), ok), i)
    /\ UNCHANGED <<now, nextId, reqs, svcVars>>

Outcomes == {"video", "empty", "quota", "error"}

Drain ==
    \E i \in 1..Len(loops) :
        \/ TimerFires(i)
        \/ \E o \in Outcomes : ProviderReturns(i, o)
        \/ \E ok \in BOOLEAN : UploadReturns(i, ok)

\* ------------------------------------------------------------ chat handler
\* A user message is the set of the words the handler tests it for; a message
\* that was not sent is NoMessage.  "ring" stands for the jewelry/action
\* lexicon of lines 898-909, "spin" for the video vocabulary of lines 886-892.
Words == {"ring", "spin", "hello"}
Lexicon == {"ring"}
VideoWords == {"spin"}
NoMessage == {"<undefined>"}
Messages == (SUBSET Words) \cup {NoMessage}

\* An oracle reply is a sequence of tokens: the two sentinels, the word
\* "video", a line break, and any other text.
GI == "GENERATE_IMAGE:"
GV == "GENERATE_VIDEO:"
NL == "\n"
ReplyTokens == {"text", "video", GI, GV, NL}
Replies == UNION {[1..n -> ReplyTokens] : n \in 0..MaxReplyLen}
\* the long replies may also say "rotating", a word of lines 886-892 that is
\* not "video"
LongReplyTokens == ReplyTokens \cup {"rotating"}
LongReplies == UNION {[1..n -> LongReplyTokens] : n \in 0..MaxLongReplyLen}

Requests == 1..MaxRequests

\* A turn of the conversation history is its role and its position in the
\* history; a history is given by the roles of its turns.  Unparsable is a
\* conversationHistory string that JSON.parse rejects.
Roles == {"user", "assistant", "system"}
Unparsable == <<"<unparsable>">>
Histories == UNION {[1..n -> Roles] : n \in 0..MaxHistoryLen} \cup {Unparsable}

\* baseImageData as sent: absent, a string JSON.parse rejects, or the JSON
\* of an object with or without a metadata property
BaseImageData == {"absent", "unparsable", "noMetadata", "metadata"}

\* the arguments of an image adapter that select the form of its prompt
NoArgs == [analysis |-> "", isRefinement |-> FALSE, baseImageDescription |-> ""]

NoResponse == [status |-> 0, error |-> "none", message |-> <<>>,
               imageUrl |-> "null", videoUrl |-> "null", metadata |-> "null"]

NoRequest == [rev |-> "none", pc |-> "idle", msg |-> {}, hasRef |-> FALSE,
              isRef |-> FALSE, reply |-> <<>>, adapters |-> <<>>, failed |-> {},
              image |-> "null", video |-> "null", videoId |-> 0,
              response |-> NoResponse,
              history |-> <<>>, baseImageInfo |-> "null", analysis |-> "",
              sent |-> <<>>, args |-> NoArgs, prompts |-> <<>>, prompt |-> <<>>]

\* lines 766-776: parsedHistory; a string that does not parse gives []
parsedHistory(h) ==
    IF h = Unparsable THEN <<>>
    ELSE [i \in 1..Len(h) |-> [role |-> h[i], turn |-> i]]

\* claudeMessages without the filter on the role
claudeMessagesUnfiltered(q) ==
    parsedHistory(q.history) \o <<[role |-> "user", turn |-> 0]>>

\* lines 862-870: the turns forwarded to the oracle; turn 0 is the new user
\* turn
claudeMessages(q) ==
    LET notSystem(m) == m.role # "system"
    IN SelectSeq(parsedHistory(q.history), notSystem) \o <<[role |-> "user", turn |-> 0]>>

\* lines 872-877: anthropic.messages.create is called
CallOracle(q) == [q EXCEPT !.pc = "oracle", !.sent = claudeMessages(q)]

\* lines 779-787: baseImageInfo
baseImageInfo(isRefinementRequest, baseImageData) ==
    IF isRefinementRequest /\ baseImageData \in {"noMetadata", "metadata"}
    THEN baseImageData ELSE "null"

\* lines 926-930
baseImageDescription(q) ==
    IF q.isRef /\ q.baseImageInfo = "metadata" THEN "previous design" ELSE ""

\* lines 953-958 and 966-971: the arguments of both image adapters
ImageArgs(q) == [analysis |-> q.analysis, isRefinement |-> q.isRef,
                 baseImageDescription |-> baseImageDescription(q)]

\* catalogPrompt with the tests for the reference and the refinement swapped
catalogPromptReferenceFirst(a) ==
    IF a.analysis # "" THEN "inspired"
    ELSE IF a.isRefinement /\ a.baseImageDescription # "" THEN "refinement"
    ELSE "plain"

\* generateImageWithVertex, lines 620-629: the form of the prompt
catalogPrompt(a) ==
    IF a.isRefinement /\ a.baseImageDescription # "" THEN "refinement"
    ELSE IF a.analysis # "" THEN "inspired"
    ELSE "plain"

\* fallbackToStableDiffusion, lines 706-714
sdCatalogPrompt(a) ==
    IF a.isRefinement /\ a.baseImageDescription # "" THEN "refinement"
    ELSE IF a.analysis # "" THEN "inspired"
    ELSE "plain"

\* String.includes on the reply
Includes(reply, tok) == \E i \in 1..Len(reply) : reply[i] = tok

\* claudeMessage.toLowerCase().includes('video'): the word, or the sentinel
\* that contains it
LowerIncludesVideo(reply) == Includes(reply, "video") \/ Includes(reply, GV)

\* first index at or after from of a token of S, Len + 1 when there is none
RECURSIVE IndexFrom(_, _, _)
IndexFrom(seq, S, from) ==
    IF from > Len(seq) THEN Len(seq) + 1
    ELSE IF seq[from] \in S THEN from
    ELSE IndexFrom(seq, S, from + 1)

\* String.trim: line breaks are the whitespace of a reply
RECURSIVE Trim(_)
Trim(seq) ==
    IF seq = <<>> THEN seq
    ELSE IF Head(seq) = NL THEN Trim(Tail(seq))
    ELSE IF seq[Len(seq)] = NL THEN Trim(SubSeq(seq, 1, Len(seq) - 1))
    ELSE seq

\* line 982: replace(/GENERATE_IMAGE:.*$/m, '').trim() removes the first
\* GENERATE_IMAGE: and the rest of its line
cleanMessage(reply) ==
    LET i == IndexFrom(reply, {GI}, 1)
        j == IndexFrom(reply, {NL}, i)
    IN IF i > Len(reply) THEN Trim(reply)
       ELSE Trim(SubSeq(reply, 1, i - 1) \o SubSeq(reply, j, Len(reply)))

\* lines 916-924: the prompt handed to the generation adapter.
\* split(sentinel)[1] is the text between the first occurrence of the
\* sentinel and its next occurrence, or the end of the reply.  Without a
\* sentinel the prompt is made from the message (its words less those the
\* regular expression of line 923 removes) and the fixed style suffix.
prompt(q) ==
    LET second(tok) == LET i == IndexFrom(q.reply, {tok}, 1)
                           j == IndexFrom(q.reply, {tok}, i + 1)
                       IN Trim(SubSeq(q.reply, i + 1, j - 1))
    IN IF Includes(q.reply, GI) THEN second(GI)
       ELSE IF Includes(q.reply, GV) THEN second(GV)
       ELSE <<"message", "style">>

\* isVideoRequest that looks at the message only
isVideoRequestMessageOnly(q) == q.msg \cap VideoWords # {}

\* lines 885-895
isVideoRequest(q) ==
    \/ q.msg \cap VideoWords # {}
    \/ LowerIncludesVideo(q.reply)

\* lines 897-913
isJewelryRequest(q) ==
    \/ q.msg \cap Lexicon # {}
    \/ Includes(q.reply, GI)
    \/ q.hasRef
    \/ q.isRef

\* lines 885-945: what the handler does with the oracle's reply; message is
\* dereferenced first (line 886), which throws when no message was sent
Decision(q) ==
    IF q.msg = NoMessage THEN "throw"
    ELSE IF ~isJewelryRequest(q) THEN "none"
    ELSE IF isVideoRequest(q) THEN "video"
    ELSE "image"

\* lines 984-1006
Respond200(q) ==
    [NoRequest EXCEPT !.rev = q.rev, !.pc = "done", !.adapters = q.adapters,
                      !.failed = q.failed,
                      !.response = [status |-> 200, error |-> "none",
                                    message |-> cleanMessage(q.reply),
                                    imageUrl |-> q.image,
                                    videoUrl |-> q.video,
                                    metadata |-> IF q.image # "null" \/ q.video # "null"
                                                 THEN "set" ELSE "null"]]

\* lines 745, 749, 824 and 1010: a response without results; error is what
\* the body reports (for 500, the error that reached the outer catch)
RespondStatus(q, status, error) ==
    [NoRequest EXCEPT !.rev = q.rev, !.pc = "done", !.adapters = q.adapters,
                      !.failed = q.failed,
                      !.response = [NoResponse EXCEPT !.status = status,
                                                      !.error = error]]

\* StartImage that calls the adapters in the wrong order
StartImageFallbackFirst(q) == [q EXCEPT !.pc = "sdCall", !.adapters = Append(@, "sd")]

\* line 953: the primary image adapter is called
StartImage(q) ==
    [q EXCEPT !.pc = "vertexCall", !.adapters = Append(@, "vertex"),
              !.prompts = Append(@, catalogPrompt(q.args))]

\* lines 961-971: generateImageWithVertex has thrown, the fallback is called
VertexFailed(q) ==
    [q EXCEPT !.failed = @ \cup {"vertex"}, !.pc = "sdCall",
              !.adapters = Append(@, "sd"),
              !.prompts = Append(@, sdCatalogPrompt(q.args))]

\* lines 953-959
VertexSucceeded(q) == Respond200([q EXCEPT !.image = "vertex"])

\* lines 966-972
SDSucceeded(q) == Respond200([q EXCEPT !.image = "sd"])

\* SDFailed that lets the error reach the handler's outer catch
SDFailedThrows(q) == RespondStatus([q EXCEPT !.failed = @ \cup {"sd"}], 500, "sd")

\* lines 974-976
SDFailed(q) == Respond200([q EXCEPT !.failed = @ \cup {"sd"}])

\* lines 938-939
VideoSucceeded(q) == Respond200([q EXCEPT !.video = "veo"])

\* VideoFailed that falls back to an image adapter
VideoFailedFallsBack(q) ==
    [q EXCEPT !.failed = @ \cup {"video"}, !.pc = "sdCall",
              !.adapters = Append(@, "sd")]

\* lines 941-944
VideoFailed(q) == Respond200([q EXCEPT !.failed = @ \cup {"video"}])

\* lines 739-761: the request arrives; the upload middleware is awaited
Receive(r, method) ==
    /\ reqs[r].pc = "idle"
    /\ reqs' = [reqs EXCEPT ![r] =
          LET q == [NoRequest EXCEPT !.rev = "chat"]
          IN CASE method = "OPTIONS" -> RespondStatus(q, 200, "none")
               [] method = "POST" -> [q EXCEPT !.pc = "upload"]
               [] OTHER -> RespondStatus(q, 405, "Method not allowed")]
    /\ UNCHANGED <<now, vmVars, svcVars>>

\* lines 756-829 and 872: the middleware is done; the body is read, then the
\* reference image is processed or, without one, the oracle is called
UploadDone(r, ok, msg, isRef, hasFile, h, base) ==
    /\ reqs[r].rev = "chat" /\ reqs[r].pc = "upload"
    /\ reqs' = [reqs EXCEPT ![r] =
          IF ~ok THEN RespondStatus(@, 500, "upload")
          ELSE LET q == [@ EXCEPT !.msg = msg, !.isRef = isRef, !.history = h,
                                  !.baseImageInfo = baseImageInfo(isRef, base)]
               IN IF hasFile THEN [q EXCEPT !.pc = "refProcess"] ELSE CallOracle(q)]
    /\ UNCHANGED <<now, vmVars, svcVars>>

\* ReferenceFailed that drops the error and goes on without the reference
ReferenceFailedContinues(q) == CallOracle(q)

\* lines 822-828: the catch around the processing of the reference image
ReferenceFailed(q) == RespondStatus(q, 400, "Failed to process reference image")

\* analyzeImageWithClaude that lets the error of the call escape: the catch
\* of line 822 answers
analyzeImageWithClaudeThrows(q, ok) ==
    IF ok THEN CallOracle([q EXCEPT !.hasRef = TRUE, !.analysis = "analysis"])
    ELSE ReferenceFailed(q)

\* analyzeImageWithClaude, lines 573-610, and lines 814-821: the analysis is
\* the oracle's description or, when the call fails, the fixed placeholder
\* of line 608; the handler goes on to the consultation
analyzeImageWithClaude(q, ok) ==
    CallOracle([q EXCEPT !.hasRef = TRUE,
                         !.analysis = IF ok THEN "analysis" ELSE "placeholder"])

\* lines 805-828: processReferenceImage, uploadImageToStorage and
\* analyzeImageWithClaude settle in turn; the first two fail the request
\* with 400, the analysis never throws (lines 606-609)
ReferenceStep(r, ok) ==
    /\ reqs[r].rev = "chat" /\ reqs[r].pc \in {"refProcess", "refUpload", "refAnalyze"}
    /\ reqs' = [reqs EXCEPT ![r] =
          CASE @.pc = "refProcess" ->
                  IF ok THEN [@ EXCEPT !.pc = "refUpload"] ELSE ReferenceFailed(@)
            [] @.pc = "refUpload" ->
                  IF ok THEN [@ EXCEPT !.pc = "refAnalyze"] ELSE ReferenceFailed(@)
            [] @.pc = "refAnalyze" -> analyzeImageWithClaude(@, ok)]
    /\ UNCHANGED <<now, vmVars, svcVars>>

\* the locals still read after line 930: the reply, for the response, and
\* (added by the image branch) the arguments of the image adapters
Kept(q) == [NoRequest EXCEPT !.rev = q.rev, !.reply = q.reply]

\* OracleFailed that swallows the error and generates from the message
OracleFailedContinues(q) == StartImage([Kept(q) EXCEPT !.args = ImageArgs(q)])

\* lines 1008-1022: the rejection of the oracle call reaches the outer catch
OracleFailed(q) == RespondStatus(q, 500, "oracle")

\* lines 872-877 and 1008-1022: anthropic.messages.create rejects
OracleFails(r) ==
    /\ reqs[r].rev = "chat" /\ reqs[r].pc = "oracle"
    /\ reqs' = [reqs EXCEPT ![r] = OracleFailed(@)]
    /\ UNCHANGED <<now, vmVars, svcVars>>

\* lines 879-984: the oracle replies; generation is decided and started
OracleReturns(r, reply) ==
    /\ reqs[r].rev = "chat" /\ reqs[r].pc = "oracle"
    /\ LET q == [reqs[r] EXCEPT !.reply = reply]
           d == Decision(q)
       IN IF d = "video"
          THEN /\ Commit(generateVideo(Manager, nextId), 0)
               /\ nextId' = nextId + 1
               /\ reqs' = [reqs EXCEPT ![r] =
                     [Kept(q) EXCEPT !.pc = "awaitVideo", !.videoId = nextId,
                                     !.adapters = <<"video">>,
                                     !.prompt = prompt(q)]]
          ELSE /\ reqs' = [reqs EXCEPT ![r] =
                     CASE d = "throw" -> RespondStatus(q, 500, "TypeError")
                       [] d = "none" -> Respond200(q)
                       [] d = "image" ->
                             StartImage([Kept(q) EXCEPT !.args = ImageArgs(q),
                                                        !.prompt = prompt(q)])]
               /\ UNCHANGED vmVars
    /\ UNCHANGED <<now, svcVars>>

\* generateImageWithVertex, lines 614-676: the predict call settles with an
\* image, with no prediction, or with an error (the awaits of the
\* credentials and of the call are one step)
VertexReturns(r, outcome) ==
    /\ reqs[r].pc = "vertexCall"
    /\ reqs' = [reqs EXCEPT ![r] =
          IF outcome = "image" THEN [@ EXCEPT !.pc = "vertexUpload"]
          ELSE VertexFailed(@)]
    /\ UNCHANGED <<now, vmVars, svcVars>>

\* line 666: the upload of the generated image settles
VertexUploadDone(r, ok) ==
    /\ reqs[r].pc = "vertexUpload"
    /\ reqs' = [reqs EXCEPT ![r] = IF ok THEN VertexSucceeded(@) ELSE VertexFailed(@)]
    /\ UNCHANGED <<now, vmVars, svcVars>>

\* fallbackToStableDiffusion, lines 716-737: replicate.run settles
SDReturns(r, ok) ==
    /\ reqs[r].pc = "sdCall"
    /\ reqs' = [reqs EXCEPT ![r] = IF ok THEN SDSucceeded(@) ELSE SDFailed(@)]
    /\ UNCHANGED <<now, vmVars, svcVars>>

\* lines 685-696 and 938-944: the promise of generateVideo has settled
VideoSettled(r) ==
    /\ reqs[r].pc = "awaitVideo"
    /\ settled[reqs[r].videoId] # <<>>
    /\ reqs' = [reqs EXCEPT ![r] =
          IF settled[@.videoId][1] = "resolved" THEN VideoSucceeded(@)
          ELSE VideoFailed(@)]
    /\ UNCHANGED <<now, vmVars, svcVars>>

\* ------------------------------------ the earlier revision (part_003)
\* line 52
forceImageGeneration == TRUE

\* part_003 lines 13-45: the request arrives and the oracle is called
LegacyReceive(r, method, msg) ==
    /\ reqs[r].pc = "idle"
    /\ reqs' = [reqs EXCEPT ![r] =
          LET q == [NoRequest EXCEPT !.rev = "part_003"]
          IN CASE method = "OPTIONS" -> RespondStatus(q, 200, "none")
               [] method = "POST" -> [q EXCEPT !.pc = "oracle", !.msg = msg]
               [] OTHER -> RespondStatus(q, 405, "Method not allowed")]
    /\ UNCHANGED <<now, vmVars, svcVars>>

\* part_003 lines 87-97
LegacyOracleFails(r) ==
    /\ reqs[r].rev = "part_003" /\ reqs[r].pc = "oracle"
    /\ reqs' = [reqs EXCEPT ![r] = RespondStatus(@, 500, "oracle")]
    /\ UNCHANGED <<now, vmVars, svcVars>>

\* part_003 lines 46-85: the oracle replies
LegacyOracleReturns(r, reply) ==
    /\ reqs[r].rev = "part_003" /\ reqs[r].pc = "oracle"
    /\ reqs' = [reqs EXCEPT ![r] =
          LET q == [@ EXCEPT !.reply = reply]
          IN IF Includes(reply, GI) \/ forceImageGeneration
             THEN [Kept(q) EXCEPT !.pc = "dalleCall", !.adapters = <<"dalle">>]
             ELSE Respond200(q)]
    /\ UNCHANGED <<now, vmVars, svcVars>>

\* part_003 lines 64-85: openai.images.generate settles
DalleReturns(r, ok) ==
    /\ reqs[r].pc = "dalleCall"
    /\ reqs' = [reqs EXCEPT ![r] =
          IF ok THEN Respond200([@ EXCEPT !.image = "dalle"])
          ELSE Respond200([@ EXCEPT !.failed = @ \cup {"dalle"}])]
    /\ UNCHANGED <<now, vmVars, svcVars>>

\* ------------------- the revision of part_002 whose handler is at line 630
\* part_002 lines 630-652: the request arrives; the upload middleware is
\* awaited before the try block is entered
Rev2Receive(r, method) ==
    /\ reqs[r].pc = "idle"
    /\ reqs' = [reqs EXCEPT ![r] =
          LET q == [NoRequest EXCEPT !.rev = "part_002"]
          IN CASE method = "OPTIONS" -> RespondStatus(q, 200, "none")
               [] method = "POST" -> [q EXCEPT !.pc = "upload"]
               [] OTHER -> RespondStatus(q, 405, "Method not allowed")]
    /\ UNCHANGED <<now, vmVars, svcVars>>

\* part_002 lines 647-660 and 727-737: the middleware is done.  Its error
\* rejects the promise awaited at line 647, outside the try: the handler's
\* own promise rejects and no line of the handler sends a response.
\* Otherwise the body is read inside the try (JSON.parse of a history that
\* does not parse throws to the catch of line 809), then the reference image
\* is processed or, without one, the oracle is called.
Rev2UploadDone(r, ok, msg, hasFile, h) ==
    /\ reqs[r].rev = "part_002" /\ reqs[r].pc = "upload"
    /\ reqs' = [reqs EXCEPT ![r] =
          IF ~ok THEN [@ EXCEPT !.pc = "rejected"]
          ELSE IF h = Unparsable THEN RespondStatus(@, 500, "SyntaxError")
          ELSE LET q == [@ EXCEPT !.msg = msg, !.history = h]
               IN IF hasFile THEN [q EXCEPT !.pc = "refProcess"] ELSE CallOracle(q)]
    /\ UNCHANGED <<now, vmVars, svcVars>>

\* part_002 lines 660-725: sharp, the upload of the reference and its
\* analysis settle in turn; an error of sharp reaches the catch of line 809,
\* the errors of the upload and of the analysis are logged and dropped
Rev2ReferenceStep(r, ok) ==
    /\ reqs[r].rev = "part_002"
    /\ reqs[r].pc \in {"refProcess", "refUpload", "refAnalyze"}
    /\ reqs' = [reqs EXCEPT ![r] =
          CASE @.pc = "refProcess" ->
                  IF ok THEN [@ EXCEPT !.pc = "refUpload"]
                  ELSE RespondStatus(@, 500, "sharp")
            [] @.pc = "refUpload" -> [@ EXCEPT !.pc = "refAnalyze"]
            [] @.pc = "refAnalyze" ->
                  CallOracle([@ EXCEPT !.hasRef = TRUE,
                                       !.analysis = IF ok THEN "analysis" ELSE ""])]
    /\ UNCHANGED <<now, vmVars, svcVars>>

\* part_002 lines 732-737 and 809-822: anthropic.messages.create rejects
Rev2OracleFails(r) ==
    /\ reqs[r].rev = "part_002" /\ reqs[r].pc = "oracle"
    /\ reqs' = [reqs EXCEPT ![r] = RespondStatus(@, 500, "oracle")]
    /\ UNCHANGED <<now, vmVars, svcVars>>

\* part_002 lines 739-808: the oracle replies; message?. never throws; an
\* image is generated or the response is sent
Rev2OracleReturns(r, reply) ==
    /\ reqs[r].rev = "part_002" /\ reqs[r].pc = "oracle"
    /\ reqs' = [reqs EXCEPT ![r] =
          LET q == [@ EXCEPT !.reply = reply]
          IN IF q.msg \cap Lexicon # {} \/ Includes(reply, GI) \/ q.hasRef
             THEN StartImage([Kept(q) EXCEPT !.args = [NoArgs EXCEPT !.analysis = q.analysis]])
             ELSE Respond200(q)]
    /\ UNCHANGED <<now, vmVars, svcVars>>

Methods == {"POST", "OPTIONS", "GET"}

\* the handler, for requests whose conversationHistory is in Hs and whose
\* baseImageData is in Bs, and for replies of the oracle in Rs
ChatWith(Hs, Bs, Rs) ==
    \E r \in Requests :
        \/ \E m \in Methods : Receive(r, m)
        \/ \E ok, isRef, hasFile \in BOOLEAN : \E msg \in Messages :
              \E h \in Hs : \E base \in Bs :
                  UploadDone(r, ok, msg, isRef, hasFile, h, base)
        \/ \E ok \in BOOLEAN : ReferenceStep(r, ok)
        \/ OracleFails(r)
        \/ \E reply \in Rs : OracleReturns(r, reply)
        \/ \E o \in {"image", "empty", "error"} : VertexReturns(r, o)
        \/ \E ok \in BOOLEAN : VertexUploadDone(r, ok)
        \/ \E ok \in BOOLEAN : SDReturns(r, ok)
        \/ VideoSettled(r)

ChatOn(Hs, Bs) == ChatWith(Hs, Bs, Replies)

\* requests without history and without base image, next to other requests
Chat == ChatOn({<<>>}, {"absent"})

\* requests with any history and base image
ChatFull == ChatOn(Histories, BaseImageData)

\* requests without history and base image whose oracle replies at length
ChatLong == ChatWith({<<>>}, {"absent"}, LongReplies)

\* the handler of part_002 line 630; its image adapters settle as those of
\* the later revision do
Rev2 ==
    \E r \in Requests :
        \/ \E m \in Methods : Rev2Receive(r, m)
        \/ \E ok, hasFile \in BOOLEAN : \E msg \in Messages : \E h \in Histories :
              Rev2UploadDone(r, ok, msg, hasFile, h)
        \/ \E ok \in BOOLEAN : Rev2ReferenceStep(r, ok)
        \/ Rev2OracleFails(r)
        \/ \E reply \in Replies : Rev2OracleReturns(r, reply)
        \/ \E o \in {"image", "empty", "error"} : VertexReturns(r, o)
        \/ \E ok \in BOOLEAN : VertexUploadDone(r, ok)
        \/ \E ok \in BOOLEAN : SDReturns(r, ok)

Legacy ==
    \E r \in Requests :
        \/ \E m \in Methods : \E msg \in Messages : LegacyReceive(r, m, msg)
        \/ LegacyOracleFails(r)
        \/ \E reply \in Replies : LegacyOracleReturns(r, reply)
        \/ \E ok \in BOOLEAN : DalleReturns(r, ok)

\* ------------------------------------------------- the storage bucket
\* The handlers of concurrent requests name their artifacts from the clock
\* and save them in one bucket.  Here a tick of `now` is one millisecond.
\* An artifact is identified by the position of its upload in `uploads`.
\* (The videos are named and saved by the single drain loop, one at a time.)
Kinds == {"reference", "jewelry-catalog", "jewelry-refined"}

\* lines 806 and 663-665: `${kind}-${Date.now()}` and the extension
filename(kind) == <<kind, now>>

\* a handler reaches line 807 or 666: the filename is built and
\* uploadImageToStorage is called
UploadStarts(kind) ==
    /\ Len(uploads) < MaxUploads
    /\ uploads' = Append(uploads, [filename |-> filename(kind), settled |-> FALSE])
    /\ UNCHANGED <<now, vmVars, reqs, bucket, contact, syncs, statVars, shareVars>>

\* uploadImageToStorage, lines 530-546: file.save settles; a saved object
\* replaces the object of the same name
FileSaved(i, ok) ==
    /\ i \in 1..Len(uploads)
    /\ ~uploads[i].settled
    /\ uploads' = [uploads EXCEPT ![i].settled = TRUE]
    /\ bucket' = IF ok
                 THEN {o \in bucket : o.filename # uploads[i].filename}
                          \cup {[filename |-> uploads[i].filename, content |-> i]}
                 ELSE bucket
    /\ UNCHANGED <<now, vmVars, reqs, contact, syncs, statVars, shareVars>>

StoreTick ==
    /\ now < Epoch + MaxStoreTime
    /\ now' = now + 1
    /\ UNCHANGED <<vmVars, reqs, svcVars>>

Store ==
    \/ \E kind \in Kinds : UploadStarts(kind)
    \/ \E i \in 1..MaxUploads : \E ok \in BOOLEAN : FileSaved(i, ok)

\* --------------------------------------------- the CRM sync (part_006)
Triggers == {"download", "share", "image_generated", "refinement_made",
             "email_captured", "session_end", "project_inquiry"}

Counters == {"sessionsCount", "imagesGenerated", "refinementsMade",
             "downloadsCount", "sharesCount"}

\* sessionData as reported by the client
SessionData == [Counters \ {"sessionsCount"} -> 0..MaxSessionCount]

Calls == 1..MaxSyncs

\* no contact is stored under the email address; totalsAdded records how
\* many times session totals have gone into the stored counters
NoContact == [exists |-> FALSE, properties |-> [k \in Counters |-> 0],
              totalsAdded |-> 0]

NoSync == [pc |-> "idle", trigger |-> "none", sessionData |-> <<>>,
           update |-> FALSE, result |-> <<>>, totalsAdded |-> 0, status |-> 0]

\* calculateCumulativeData that adds the session totals on every trigger
calculateCumulativeDataBulk(existing, sessionData, conversionTrigger) ==
    [k \in Counters |->
        existing[k] + (IF k = "sessionsCount" THEN 1 ELSE sessionData[k])]

\* part_006 lines 211-253; existing is the stored properties, 0 for each
\* counter of a contact that was not found (parseInt(undefined) || 0)
calculateCumulativeData(existing, sessionData, conversionTrigger) ==
    CASE conversionTrigger = "download" ->
            [existing EXCEPT !["downloadsCount"] = @ + 1]
      [] conversionTrigger = "share" ->
            [existing EXCEPT !["sharesCount"] = @ + 1]
      [] conversionTrigger = "image_generated" ->
            [existing EXCEPT !["imagesGenerated"] = @ + 1]
      [] conversionTrigger = "refinement_made" ->
            [existing EXCEPT !["refinementsMade"] = @ + 1]
      [] conversionTrigger = "email_captured" ->
            [k \in Counters |->
                existing[k] + (IF k = "sessionsCount" THEN 1 ELSE sessionData[k])]
      [] conversionTrigger = "session_end" ->
            [existing EXCEPT !["sessionsCount"] = @ + 1]
      [] OTHER -> existing

\* part_006 lines 239-245: the email_captured case adds session totals
\* (something other than 0) to the counters
AddsSessionTotals(sessionData, conversionTrigger) ==
    /\ conversionTrigger = "email_captured"
    /\ \E k \in DOMAIN sessionData : sessionData[k] > 0

\* part_006 lines 23-57: the request arrives; the contact is searched
SyncReceive(c, method, trigger, sessionData) ==
    /\ syncs[c].pc = "idle"
    /\ syncs' = [syncs EXCEPT ![c] =
          CASE method = "OPTIONS" -> [@ EXCEPT !.pc = "done", !.status = 200]
            [] method = "POST" -> [@ EXCEPT !.pc = "search", !.trigger = trigger,
                                            !.sessionData = sessionData]
            [] OTHER -> [@ EXCEPT !.pc = "done", !.status = 405]]
    /\ UNCHANGED <<now, vmVars, reqs, uploads, bucket, contact, statVars, shareVars>>

\* part_006 lines 81-131: the search settles (a failed search is taken as
\* no contact); the counters are computed and the update or create is sent
SearchReturns(c, ok) ==
    /\ syncs[c].pc = "search"
    /\ LET found == ok /\ contact.exists
           existing == IF found THEN contact.properties ELSE NoContact.properties
       IN syncs' = [syncs EXCEPT ![c] =
             [NoSync EXCEPT !.pc = "write", !.update = found,
                            !.trigger = syncs[c].trigger,
                            !.totalsAdded =
                                (IF found THEN contact.totalsAdded ELSE 0)
                                + (IF AddsSessionTotals(syncs[c].sessionData,
                                                        syncs[c].trigger)
                                   THEN 1 ELSE 0),
                            !.result = calculateCumulativeData(
                                           existing, syncs[c].sessionData,
                                           syncs[c].trigger)]]
    /\ UNCHANGED <<now, vmVars, reqs, uploads, bucket, contact, statVars, shareVars>>

\* part_006 lines 119-148: the update or create settles; the CRM holds one
\* contact per email address, so a create succeeds only when there is none
WriteReturns(c, ok) ==
    /\ syncs[c].pc = "write"
    /\ ok => (syncs[c].update \/ ~contact.exists)
    /\ contact' = IF ok THEN [exists |-> TRUE, properties |-> syncs[c].result,
                              totalsAdded |-> syncs[c].totalsAdded]
                  ELSE contact
    /\ syncs' = [syncs EXCEPT ![c] =
          [NoSync EXCEPT !.pc = "done", !.status = IF ok THEN 200 ELSE 500]]
    /\ UNCHANGED <<now, vmVars, reqs, uploads, bucket, statVars, shareVars>>

Crm ==
    \E c \in Calls :
        \/ \E m \in Methods : \E tr \in Triggers : \E sd \in SessionData :
              SyncReceive(c, m, tr, sd)
        \/ \E ok \in BOOLEAN : SearchReturns(c, ok)
        \/ \E ok \in BOOLEAN : WriteReturns(c, ok)


\* --------------------------------- the analytics endpoint (analytics.js)
\* Here a tick of `now` is one day: getTodayKey() is `now`.  The counters of
\* the four buckets have different names in the source; a key names the
\* counter of one kind of event in each of them:
\*     key          global                daily            brand
\*     images       totalImagesGenerated  imagesGenerated  totalImages / images
\*     sessions     totalSessions         sessions         totalSessions / sessions
\*     downloads    totalDownloads        downloads        totalDownloads / downloads
\*     shares       totalShares           shares           totalShares / shares
\*     refinements  totalRefinements      refinements      totalRefinements / refinements
\* The time stamps lastUpdated, firstUsed and lastUsed are left out.
StatKeys == {"images", "sessions", "downloads", "shares", "refinements"}

\* eventType as sent: the five the switch knows, one it does not, or none
EventTypes == {"image_generated", "session_start", "download", "share",
               "refinement", "page_view", ""}

Brands == {"default", "acme"}

TrackCalls == 1..MaxTracks

\* line 17
StartingCount == 750

\* daily stats are kept for 90 days (lines 150-160); scaled to days of the
\* model
RetentionDays == 2

ZeroCounts == [k \in StatKeys |-> 0]

\* lines 16-25
InitialStats == [total |-> [ZeroCounts EXCEPT !["images"] = StartingCount],
                 dailyStats |-> [d \in {} |-> ZeroCounts],
                 brandStats |-> [b \in {} |-> ZeroCounts]]

\* the blob does not exist
NoStats == [exists |-> FALSE, value |-> InitialStats]

NoTrack == [pc |-> "idle", method |-> "none", eventType |-> "", brand |-> "none",
            content |-> InitialStats, status |-> 0]

\* lines 111-146: the counter of the switch's case, none without a case
CounterOf(eventType) ==
    CASE eventType = "image_generated" -> {"images"}
      [] eventType = "session_start" -> {"sessions"}
      [] eventType = "download" -> {"downloads"}
      [] eventType = "share" -> {"shares"}
      [] eventType = "refinement" -> {"refinements"}
      [] OTHER -> {}

\* f with x mapped to v, x added to its domain if need be
Put(f, x, v) == [y \in DOMAIN f \cup {x} |-> IF y = x THEN v ELSE f[y]]

Bump(counts, keys) == [k \in StatKeys |-> counts[k] + (IF k \in keys THEN 1 ELSE 0)]

\* trackEvent that counts the event in the global totals only
trackEventGlobalOnly(analytics, eventType, brand) ==
    [analytics EXCEPT !.total = Bump(@, CounterOf(eventType))]

\* trackEvent, lines 70-160, on the object that getAnalytics returned: the
\* object as it is handed to updateAnalytics
trackEvent(analytics, eventType, brand) ==
    LET today == now
        \* lines 75-108
        day0 == IF today \in DOMAIN analytics.dailyStats
                THEN analytics.dailyStats[today]
                ELSE [counts |-> ZeroCounts, brands |-> [b \in {} |-> ZeroCounts]]
        brand0 == IF brand \in DOMAIN analytics.brandStats
                  THEN analytics.brandStats[brand] ELSE ZeroCounts
        dayBrand0 == IF brand \in DOMAIN day0.brands
                     THEN day0.brands[brand] ELSE ZeroCounts
        \* lines 111-146
        keys == CounterOf(eventType)
        day1 == [counts |-> Bump(day0.counts, keys),
                 brands |-> Put(day0.brands, brand, Bump(dayBrand0, keys))]
        daily1 == Put(analytics.dailyStats, today, day1)
        \* lines 150-160
        cutoffDate == today - RetentionDays
    IN [total |-> Bump(analytics.total, keys),
        dailyStats |-> [d \in {x \in DOMAIN daily1 : ~(x < cutoffDate)} |-> daily1[d]],
        brandStats |-> Put(analytics.brandStats, brand, Bump(brand0, keys))]

\* the handler after getAnalytics has returned analytics, the object
\* INITIAL_STATS itself when aliased: a GET answers; a POST goes through
\* trackEvent up to the await of file.save in updateAnalytics (lines 48-57)
AfterGetAnalytics(t, analytics, aliased) ==
    IF tracks[t].method = "GET"
    THEN /\ tracks' = [tracks EXCEPT ![t] = [NoTrack EXCEPT !.pc = "done", !.status = 200,
                                                           !.content = analytics]]
         /\ UNCHANGED INITIAL_STATS
    ELSE LET result == trackEvent(analytics, tracks[t].eventType, tracks[t].brand)
         IN /\ tracks' = [tracks EXCEPT ![t].pc = "save", ![t].content = result]
            /\ INITIAL_STATS' = IF aliased THEN result ELSE INITIAL_STATS

\* lines 165-205: the request arrives; getAnalytics awaits file.exists
TrackReceive(t, method, eventType, brand) ==
    /\ tracks[t].pc = "idle"
    /\ tracks' = [tracks EXCEPT ![t] =
          CASE method = "OPTIONS" -> [@ EXCEPT !.pc = "done", !.status = 200]
            [] method = "GET" -> [@ EXCEPT !.pc = "exists", !.method = "GET"]
            [] method = "POST" ->
                  IF eventType = "" THEN [@ EXCEPT !.pc = "done", !.status = 400]
                  ELSE [@ EXCEPT !.pc = "exists", !.method = "POST",
                                 !.eventType = eventType, !.brand = brand]
            [] OTHER -> [@ EXCEPT !.pc = "done", !.status = 405]]
    /\ UNCHANGED <<now, vmVars, reqs, uploads, bucket, contact, syncs, stats,
                   INITIAL_STATS, shareVars>>

\* getAnalytics, lines 32-45: file.exists settles; without the blob the
\* initial stats are saved, a rejection is caught and INITIAL_STATS returned
ExistsReturns(t, ok) ==
    /\ tracks[t].pc = "exists"
    /\ IF ~ok THEN AfterGetAnalytics(t, INITIAL_STATS, TRUE)
       ELSE /\ tracks' = [tracks EXCEPT ![t] =
                  IF stats.exists THEN [@ EXCEPT !.pc = "download"]
                  ELSE [@ EXCEPT !.pc = "saveInitial", !.content = INITIAL_STATS]]
            /\ UNCHANGED INITIAL_STATS
    /\ UNCHANGED <<now, vmVars, reqs, uploads, bucket, contact, syncs, stats, shareVars>>

\* getAnalytics, lines 34-37 and 42-45: the save of the initial stats
\* settles; INITIAL_STATS is returned either way
InitialSaved(t, ok) ==
    /\ tracks[t].pc = "saveInitial"
    /\ stats' = IF ok THEN [exists |-> TRUE, value |-> tracks[t].content] ELSE stats
    /\ AfterGetAnalytics(t, INITIAL_STATS, TRUE)
    /\ UNCHANGED <<now, vmVars, reqs, uploads, bucket, contact, syncs, shareVars>>

\* getAnalytics, lines 40-45: file.download settles with the blob as it is
\* now, or rejects
DownloadReturns(t, ok) ==
    /\ tracks[t].pc = "download"
    /\ IF ok THEN AfterGetAnalytics(t, stats.value, FALSE)
       ELSE AfterGetAnalytics(t, INITIAL_STATS, TRUE)
    /\ UNCHANGED <<now, vmVars, reqs, uploads, bucket, contact, syncs, stats, shareVars>>

\* updateAnalytics, lines 56-63, and lines 211-224: file.save settles
StatsSaved(t, ok) ==
    /\ tracks[t].pc = "save"
    /\ stats' = IF ok THEN [exists |-> TRUE, value |-> tracks[t].content] ELSE stats
    /\ tracks' = [tracks EXCEPT ![t] =
          [NoTrack EXCEPT !.pc = "done", !.status = IF ok THEN 200 ELSE 500,
                          !.eventType = IF ok THEN tracks[t].eventType ELSE "",
                          !.content = IF ok THEN tracks[t].content ELSE InitialStats]]
    /\ UNCHANGED <<now, vmVars, reqs, uploads, bucket, contact, syncs, INITIAL_STATS,
                   shareVars>>

\* the serverless instance is replaced: the module is evaluated again
ColdStart ==
    /\ \A t \in TrackCalls : tracks[t].pc \in {"idle", "done"}
    /\ INITIAL_STATS # InitialStats
    /\ INITIAL_STATS' = InitialStats
    /\ UNCHANGED <<now, vmVars, reqs, uploads, bucket, contact, syncs, stats, tracks,
                   shareVars>>

DayTick ==
    /\ now < Epoch + MaxDays
    /\ now' = now + 1
    /\ UNCHANGED <<vmVars, reqs, svcVars>>

Analytics ==
    \E t \in TrackCalls :
        \/ \E m \in Methods : \E e \in EventTypes : \E b \in Brands :
              TrackReceive(t, m, e, b)
        \/ \E ok \in BOOLEAN : ExistsReturns(t, ok)
        \/ \E ok \in BOOLEAN : InitialSaved(t, ok)
        \/ \E ok \in BOOLEAN : DownloadReturns(t, ok)
        \/ \E ok \in BOOLEAN : StatsSaved(t, ok)


\* ------------------------------------- the share endpoint (part_005)
\* Here the expiry of 30 days (line 95) is ShareLifetime ticks of `now`.
ShareLifetime == 2

ShareCalls == 1..MaxShares

\* Math.random().toString(36).substr(2, 9), line 17
RandomSuffixes == {1, 2}

\* no shareId in the query
NoShareId == <<0, 0>>

ShareIds == ((Epoch..(Epoch + MaxShareTime)) \X RandomSuffixes) \cup {NoShareId}

NoConversation == [id |-> NoShareId, messages |-> <<>>, expiresAt |-> 0]

NoShare == [pc |-> "idle", shareId |-> NoShareId, data |-> NoConversation,
            status |-> 0]

\* lines 16-18
generateShareId(rnd) == <<now, rnd>>

\* lines 81-87: every message of the history is copied
shareableHistory(conversationHistory) ==
    [i \in 1..Len(conversationHistory) |-> [role |-> conversationHistory[i], turn |-> i]]

\* isExpired that takes the moment of expiry as expired
isExpiredAtExpiry(conversationData) == now >= conversationData.expiresAt

\* line 123: new Date() > new Date(conversationData.expiresAt)
isExpired(conversationData) == now > conversationData.expiresAt

\* lines 62-107 and 132-134: the request arrives.  A POST builds the
\* conversation and awaits its save (Unparsable stands for a
\* conversationHistory that is missing or not an array); a GET awaits
\* file.exists
ShareReceive(c, method, conversationHistory, shareId, rnd) ==
    /\ shares[c].pc = "idle"
    /\ shares' = [shares EXCEPT ![c] =
          CASE method = "OPTIONS" -> [@ EXCEPT !.pc = "done", !.status = 200]
            [] method = "POST" ->
                  IF conversationHistory = Unparsable
                  THEN [@ EXCEPT !.pc = "done", !.status = 400]
                  ELSE [@ EXCEPT !.pc = "save",
                                 !.data = [id |-> generateShareId(rnd),
                                           messages |-> shareableHistory(conversationHistory),
                                           expiresAt |-> now + ShareLifetime]]
            [] method = "GET" ->
                  IF shareId = NoShareId
                  THEN [@ EXCEPT !.pc = "done", !.status = 400]
                  ELSE [@ EXCEPT !.pc = "exists", !.shareId = shareId]
            [] OTHER -> [@ EXCEPT !.pc = "done", !.status = 405]]
    /\ UNCHANGED <<now, vmVars, reqs, uploads, bucket, contact, syncs, statVars, shared>>

\* saveSharedConversation, lines 21-40, and lines 97-106: file.save settles
ConversationSaved(c, ok) ==
    /\ shares[c].pc = "save"
    /\ shared' = IF ok THEN Put(shared, shares[c].data.id, shares[c].data) ELSE shared
    /\ shares' = [shares EXCEPT ![c] =
          [NoShare EXCEPT !.pc = "done", !.status = IF ok THEN 200 ELSE 500,
                          !.shareId = IF ok THEN shares[c].data.id ELSE NoShareId]]
    /\ UNCHANGED <<now, vmVars, reqs, uploads, bucket, contact, syncs, statVars>>

\* lines 118-120: getSharedConversation has returned null
NotFound(q) == [NoShare EXCEPT !.pc = "done", !.status = 404, !.shareId = q.shareId]

\* lines 122-130: the conversation was read; its expiry is tested
Found(q, conversationData) ==
    [NoShare EXCEPT !.pc = "done", !.shareId = q.shareId,
                    !.status = IF isExpired(conversationData) THEN 410 ELSE 200,
                    !.data = IF isExpired(conversationData) THEN NoConversation
                             ELSE conversationData]

\* getSharedConversation, lines 49-52 and 56-59: file.exists settles; a
\* rejection is caught and null returned
SharedExists(c, ok) ==
    /\ shares[c].pc = "exists"
    /\ shares' = [shares EXCEPT ![c] =
          IF ok /\ shares[c].shareId \in DOMAIN shared THEN [@ EXCEPT !.pc = "download"]
          ELSE NotFound(@)]
    /\ UNCHANGED <<now, vmVars, reqs, uploads, bucket, contact, syncs, statVars, shared>>

\* getSharedConversation, lines 54-59, and lines 118-130: file.download
\* settles
SharedDownloaded(c, ok) ==
    /\ shares[c].pc = "download"
    /\ shares' = [shares EXCEPT ![c] =
          IF ok THEN Found(@, shared[shares[c].shareId]) ELSE NotFound(@)]
    /\ UNCHANGED <<now, vmVars, reqs, uploads, bucket, contact, syncs, statVars, shared>>

ShareTick ==
    /\ now < Epoch + MaxShareTime
    /\ now' = now + 1
    /\ UNCHANGED <<vmVars, reqs, svcVars>>

Share ==
    \E c \in ShareCalls :
        \/ \E m \in Methods : \E h \in Histories : \E id \in ShareIds :
              \E rnd \in RandomSuffixes : ShareReceive(c, m, h, id, rnd)
        \/ \E ok \in BOOLEAN : ConversationSaved(c, ok)
        \/ \E ok \in BOOLEAN : SharedExists(c, ok)
        \/ \E ok \in BOOLEAN : SharedDownloaded(c, ok)

vars == <<now, requestQueue, processing, lastRequestTime, requestCount, windowStart,
          loops, nextId, settled, dispatchLog, handled, resetCount, providerCalls, reqs,
          uploads, bucket, contact, syncs, stats, INITIAL_STATS, tracks, shared, shares>>

Init ==
    /\ now = Epoch
    /\ requestQueue = <<>>
    /\ processing = FALSE
    /\ lastRequestTime = 0
    /\ requestCount = 0
    /\ windowStart = Epoch
    /\ loops = <<>>
    /\ nextId = 1
    /\ settled = [id \in Ids |-> <<>>]
    /\ dispatchLog = <<>>
    /\ handled = <<>>
    /\ resetCount = 0
    /\ providerCalls = {}
    /\ reqs = [r \in Requests |-> NoRequest]
    /\ uploads = <<>>
    /\ bucket = {}
    /\ contact = NoContact
    /\ syncs = [c \in Calls |-> NoSync]
    /\ stats = NoStats
    /\ INITIAL_STATS = InitialStats
    /\ tracks = [t \in TrackCalls |-> NoTrack]
    /\ shared = [id \in {} |-> NoConversation]
    /\ shares = [c \in ShareCalls |-> NoShare]

Next == GenerateVideo \/ Tick \/ Drain

Spec == Init /\ [][Next]_vars

\* ------------------------------------------------------------- fairness
\* Every provider call, upload and timer eventually completes: a suspended
\* drain loop is eventually resumed, and the clock reaches a pending timer
\* (under FairSpec the clock moves only to reach one, so that no bound on the
\* clock stops a drain: calls and uploads complete within the tick).
TimerPending == \E i \in 1..Len(loops) :
    loops[i].pc \in TimerPcs /\ now < loops[i].wakeAt

TickToTimer ==
    /\ TimerPending
    /\ ~TimerDue
    /\ now' = now + 1
    /\ UNCHANGED <<vmVars, reqs, svcVars>>

GenerateVideoFair == Arrival(MaxFairEntries)

NextFair == GenerateVideoFair \/ TickToTimer \/ Drain

FairSpec == Init /\ [][NextFair]_vars /\ WF_vars(Drain) /\ WF_vars(TickToTimer)

\* ---------------------------------------------- the handler and the queue
\* another request's video, ahead of the ones of the requests followed
GenerateVideoOther == Arrival(MaxOtherVideo)

NextChat == Chat \/ Legacy \/ GenerateVideoOther \/ TickToTimer \/ Drain

SpecChat == Init /\ [][NextChat]_vars

\* ------------------------------------------ the handler, on all its inputs
\* one request to the handler of src/api/chat.js, alone on the video queue
NextHandler == ChatFull \/ TickToTimer \/ Drain

SpecHandler == Init /\ [][NextHandler]_vars

\* ------------------------------- the handler, on the oracle's long replies
NextPrompt == ChatLong \/ TickToTimer \/ Drain

SpecPrompt == Init /\ [][NextPrompt]_vars

\* ------------------------------------- the handler of part_002 line 630
NextRev2 == Rev2

SpecRev2 == Init /\ [][NextRev2]_vars

\* ------------------------------------------------ the storage bucket
NextStore == Store \/ StoreTick

SpecStore == Init /\ [][NextStore]_vars

\* ------------------------------------------------------- the CRM sync
NextCrm == Crm

SpecCrm == Init /\ [][NextCrm]_vars

\* ----------------------------------------------- the analytics endpoint
NextStats == Analytics \/ ColdStart \/ DayTick

SpecStats == Init /\ [][NextStats]_vars

\* --------------------------------------------------- the share endpoint
NextShare == Share \/ ShareTick

SpecShare == Init /\ [][NextShare]_vars

\* ------------------------------------------------------------- claims
Enqueued == 1..(nextId - 1)

\* C1: the dispatches of the drain loop (its calls of generateVideoWithRetry,
\* one per entry) never include more than maxRequestsPerMinute dispatches
\* spanning less than windowDuration, and the dispatch that follows
\* maxRequestsPerMinute others comes after a reset of the quota window.
QuotaCeilingPerWindow ==
    \A i, j \in 1..Len(dispatchLog) :
        j - i >= maxRequestsPerMinute =>
            /\ dispatchLog[j].t - dispatchLog[i].t >= windowDuration
            /\ dispatchLog[j].resets > dispatchLog[i].resets

QuotaCeilingWitness ==
    /\ Len(dispatchLog) > maxRequestsPerMinute
    /\ requestCount > 0

\* C2: at most one drain loop is active at any time, and a generateVideo call
\* that arrives while processing is true only appends its entry: nothing is
\* dequeued and no loop is started.
OneDrainLoop ==
    /\ [](Len(loops) <= 1)
    /\ [][(processing /\ nextId' # nextId) =>
            /\ requestQueue' = Append(requestQueue, [id |-> nextId, timestamp |-> now])
            /\ loops' = loops
            /\ processing']_vars

OneDrainLoopWitness ==
    /\ Len(loops) = 1
    /\ loops[1].pc \in {"calling", "rateWait", "backoff"}
    /\ Len(requestQueue) >= 2

\* C3: entries are dispatched, or rejected as stale, in the order of their
\* generateVideo calls.
FifoOrder ==
    \A i, j \in 1..Len(handled) : i < j => handled[i] < handled[j]

FifoOrderWitness ==
    /\ Len(handled) >= 3
    /\ requestQueue # <<>>
    /\ \E id \in Enqueued : settled[id] = <<"timeout">>

\* C4: an entry taken off the queue at an age above QueueTimeout is rejected
\* with the timeout error, no provider call is made for it, and the drain
\* loop goes on: it is then at a later entry, or the queue is empty and the
\* loop has ended.
Removed(e) == \A k \in 1..Len(requestQueue') : requestQueue'[k].id # e.id

StaleEntryRejected ==
    [][\A k \in 1..Len(requestQueue) :
          LET e == requestQueue[k]
          IN (Removed(e) /\ now - e.timestamp > QueueTimeout) =>
                /\ settled'[e.id] = <<"timeout">>
                /\ e.id \notin providerCalls'
                /\ \/ requestQueue' = <<>> /\ ~processing' /\ loops' = <<>>
                   \/ Len(loops') = 1 /\ loops'[1].id > e.id]_vars

StaleEntryWitness ==
    \E id \in Enqueued :
        /\ settled[id] = <<"timeout">>
        /\ Len(loops) = 1 /\ loops[1].id > id /\ loops[1].pc = "calling"

ImageFallbackOrder ==
    \A r \in Requests :
        LET q == reqs[r]
            n == Len(q.adapters)
        IN (q.rev = "chat" /\ n > 0 /\ q.adapters[1] # "video") =>
              /\ q.adapters \in {<<"vertex">>, <<"vertex", "sd">>}
              /\ n = 2 => "vertex" \in q.failed
              /\ q.pc = "done" =>
                    /\ q.response.status = 200
                    /\ q.response.imageUrl =
                          IF q.adapters[n] \in q.failed THEN "null" ELSE q.adapters[n]

ImageFallbackWitness ==
    \E r \in Requests :
        /\ reqs[r].pc = "done"
        /\ reqs[r].adapters = <<"vertex", "sd">>
        /\ reqs[r].response.imageUrl = "sd"

\* C7: when the oracle has replied and every image adapter fails, the handler
\* responds 200 with the cleaned reply as message, imageUrl null and metadata
\* null; a request whose image generation failed is never answered with an
\* error.
ImageFailureNotFatal ==
    [][\A r \in Requests :
          (reqs[r].rev = "chat" /\ reqs[r].pc \in {"vertexCall", "vertexUpload", "sdCall"}
              /\ reqs'[r].pc = "done") =>
                /\ reqs'[r].response.status = 200
                /\ reqs'[r].failed = {"vertex", "sd"} =>
                      reqs'[r].response =
                          [status |-> 200, error |-> "none",
                           message |-> cleanMessage(reqs[r].reply),
                           imageUrl |-> "null", videoUrl |-> "null",
                           metadata |-> "null"]]_vars

ImageFailureWitness ==
    \E r \in Requests :
        /\ reqs[r].pc = "done"
        /\ reqs[r].failed = {"vertex", "sd"}
        /\ reqs[r].response.message = <<"text">>

\* C8: when the video request fails, with whatever error of the queue, no
\* image adapter is called and the handler responds 200 with videoUrl null
\* and imageUrl null.
VideoFailureNoFallback ==
    \A r \in Requests :
        "video" \in reqs[r].failed =>
            /\ reqs[r].adapters = <<"video">>
            /\ reqs[r].pc = "done"
            /\ reqs[r].response.status = 200
            /\ reqs[r].response.videoUrl = "null"
            /\ reqs[r].response.imageUrl = "null"

VideoFailureWitness ==
    \E r \in Requests : \E id \in Enqueued :
        /\ reqs[r].pc = "done"
        /\ "video" \in reqs[r].failed
        /\ id = nextId - 1
        /\ settled[id] = <<"timeout">>

\* the step in which a handler receives the oracle's reply
OracleStep(r, reply) == OracleReturns(r, reply) \/ LegacyOracleReturns(r, reply)

HasDirective(reply) == Includes(reply, GI) \/ Includes(reply, GV)

\* C9: for a request whose message matches no word of the lexicon, that
\* carries no reference image and whose reply contains no directive, no
\* generation adapter is called.
NoSignalNoGeneration ==
    [][\A r \in Requests : \A reply \in Replies :
          (/\ OracleStep(r, reply)
           /\ reqs[r].msg \cap Lexicon = {}
           /\ ~reqs[r].hasRef
           /\ ~HasDirective(reply)) => reqs'[r].adapters = <<>>]_vars

\* C10: whenever the reply contains a directive, a generation adapter is
\* called.
DirectiveStartsGeneration ==
    [][\A r \in Requests : \A reply \in Replies :
          (OracleStep(r, reply) /\ HasDirective(reply)) =>
              reqs'[r].adapters # <<>>]_vars

\* C11: the message of a 200 response of the handler contains neither
\* sentinel, whatever sentinels the oracle's reply contained.
CleanMessageHidesSentinels ==
    \A r \in Requests :
        (reqs[r].pc = "done" /\ reqs[r].response.status = 200) =>
            /\ ~Includes(reqs[r].response.message, GI)
            /\ ~Includes(reqs[r].response.message, GV)

\* C12: the turns forwarded to the oracle are the turns of the history whose
\* role is not system, each once and in the order of the history, followed
\* by the new user turn; no forwarded turn has the role system.
NoSystemTurnForwarded ==
    \A r \in Requests :
        (reqs[r].rev = "chat" /\ reqs[r].pc = "oracle") =>
            LET h == reqs[r].history
                s == reqs[r].sent
                n == Len(s)
            IN /\ n >= 1
               /\ s[n] = [role |-> "user", turn |-> 0]
               /\ \A i \in 1..n : s[i].role # "system"
               /\ \A i \in 1..(n - 1) :
                     s[i].turn \in 1..Len(h) /\ s[i].role = h[s[i].turn]
               /\ \A i, j \in 1..(n - 1) : i < j => s[i].turn < s[j].turn
               /\ h = Unparsable => n = 1
               /\ h # Unparsable =>
                     \A k \in 1..Len(h) :
                         h[k] # "system" => \E i \in 1..(n - 1) : s[i].turn = k

NoSystemTurnWitness ==
    \E r \in Requests :
        /\ reqs[r].pc = "oracle"
        /\ reqs[r].history = <<"system", "assistant">>
        /\ reqs[r].sent = <<[role |-> "assistant", turn |-> 2], [role |-> "user", turn |-> 0]>>

\* C13: when the oracle call fails the handler responds 500, no generation
\* adapter is called and nothing is put on the video queue.
OracleFailureIs500 ==
    [][\A r \in Requests :
          OracleFails(r) =>
              /\ reqs'[r].pc = "done"
              /\ reqs'[r].response.status = 500
              /\ reqs'[r].adapters = <<>>
              /\ requestQueue' = requestQueue
              /\ nextId' = nextId
              /\ providerCalls' = providerCalls]_vars

OracleFailureWitness ==
    \E r \in Requests :
        /\ reqs[r].rev = "chat"
        /\ reqs[r].pc = "done"
        /\ reqs[r].response.status = 500
        /\ reqs[r].response.error = "oracle"

UploadFailureKeepsArtifact ==
    [][\A r \in Requests :
          VertexUploadDone(r, FALSE) =>
              /\ reqs'[r].pc = "done"
              /\ reqs'[r].response.status = 200
              /\ reqs'[r].response.imageUrl = "vertex"]_vars

\* C16: for a request with a reference image and no message, the step that
\* receives the oracle's reply starts a generation adapter and does not fail
\* the request.
ReferenceOnlyGenerates ==
    [][\A r \in Requests : \A reply \in Replies :
          (OracleReturns(r, reply) /\ reqs[r].hasRef /\ reqs[r].msg = NoMessage) =>
              /\ reqs'[r].adapters # <<>>
              /\ reqs'[r].response.status # 500]_vars

\* C17: a request whose upload is rejected by the middleware, or whose
\* conversationHistory does not parse, is answered with status 400.
MalformedInputIs400 ==
    [][\A r \in Requests :
          (/\ reqs[r].rev = "chat" /\ reqs[r].pc = "upload" /\ reqs'[r] # reqs[r]
           /\ \/ reqs'[r].response.error = "upload"
              \/ reqs'[r].history = Unparsable) =>
              reqs'[r].response.status = 400]_vars

\* C18: the prompt of an image adapter has the refinement form when the
\* refinement flag, a base description and a reference analysis are all
\* present, the inspired-by form with a reference analysis and no refinement
\* context, and the plain form with neither.
RefinementFormHasPriority ==
    \A r \in Requests : \A i \in 1..Len(reqs[r].prompts) :
        LET a == reqs[r].args
            refinement == a.isRefinement /\ a.baseImageDescription # ""
            reference == a.analysis # ""
        IN /\ (refinement /\ reference) => reqs[r].prompts[i] = "refinement"
           /\ (~refinement /\ reference) => reqs[r].prompts[i] = "inspired"
           /\ (~refinement /\ ~reference) => reqs[r].prompts[i] = "plain"

RefinementFormWitness ==
    \E r \in Requests :
        /\ reqs[r].args.isRefinement
        /\ reqs[r].args.baseImageDescription # ""
        /\ reqs[r].args.analysis # ""
        /\ reqs[r].prompts = <<"refinement", "refinement">>

\* C19: no two uploads, of whatever requests and in whatever millisecond,
\* are given the same filename (so that no object of the bucket is replaced
\* by another artifact).
FilenamesUnique ==
    \A i, j \in 1..Len(uploads) :
        i # j => uploads[i].filename # uploads[j].filename

\* the counter that a trigger other than the first-contact trigger increments
MatchingCounter(trigger) ==
    CASE trigger = "download" -> {"downloadsCount"}
      [] trigger = "share" -> {"sharesCount"}
      [] trigger = "image_generated" -> {"imagesGenerated"}
      [] trigger = "refinement_made" -> {"refinementsMade"}
      [] trigger = "session_end" -> {"sessionsCount"}
      [] OTHER -> {}

\* C20: for a sync call whose trigger is not email_captured, the counters
\* computed are those of the contact found (0 when none was found), with 1
\* added to the counter of the trigger and nothing added to any other,
\* whatever sessionData reports; an unrecognized trigger changes none.
OnlyTriggerCounterChanges ==
    [][\A c \in Calls :
          (/\ syncs[c].pc = "search" /\ syncs'[c].pc = "write"
           /\ syncs[c].trigger # "email_captured") =>
              LET stored == IF syncs'[c].update THEN contact.properties
                            ELSE NoContact.properties
              IN \A k \in Counters :
                    syncs'[c].result[k] =
                        stored[k] + (IF k \in MatchingCounter(syncs[c].trigger)
                                     THEN 1 ELSE 0)]_vars

OnlyTriggerCounterWitness ==
    \E c \in Calls :
        /\ syncs[c].pc = "write"
        /\ syncs[c].trigger = "download"
        /\ syncs[c].update
        /\ contact.properties["downloadsCount"] = 1
        /\ contact.properties["imagesGenerated"] = 1
        /\ syncs[c].result["downloadsCount"] = 2
        /\ syncs[c].result["imagesGenerated"] = 1

\* C21: over any sequence of sync calls for one contact, session totals go
\* into the stored counters at most once.
SessionTotalsAddedOnce == contact.totalsAdded <= 1

\* the counters of an object of stats: those of a brand, of a day, and of a
\* brand on a day; 0 where the object has no entry
CountsOrZero(f, x) == IF x \in DOMAIN f THEN f[x] ELSE ZeroCounts

DayCounts(a, d) ==
    IF d \in DOMAIN a.dailyStats THEN a.dailyStats[d].counts ELSE ZeroCounts

DayBrandCounts(a, d, b) ==
    IF d \in DOMAIN a.dailyStats THEN CountsOrZero(a.dailyStats[d].brands, b)
    ELSE ZeroCounts

\* the counter that an eventType names
EventCounter(eventType) ==
    CASE eventType = "image_generated" -> {"images"}
      [] eventType = "session_start" -> {"sessions"}
      [] eventType = "download" -> {"downloads"}
      [] eventType = "share" -> {"shares"}
      [] eventType = "refinement" -> {"refinements"}
      [] OTHER -> {}

\* r is a with the event counted once in the four buckets, every other
\* counter as in a, the other days of `days` among them
EventCounted(a, r, eventType, brand, days) ==
    LET inc(k) == IF k \in EventCounter(eventType) THEN 1 ELSE 0
    IN /\ \A k \in StatKeys :
             /\ r.total[k] = a.total[k] + inc(k)
             /\ DayCounts(r, now)[k] = DayCounts(a, now)[k] + inc(k)
             /\ CountsOrZero(r.brandStats, brand)[k]
                    = CountsOrZero(a.brandStats, brand)[k] + inc(k)
             /\ DayBrandCounts(r, now, brand)[k]
                    = DayBrandCounts(a, now, brand)[k] + inc(k)
       /\ \A b \in Brands \ {brand} :
             /\ CountsOrZero(r.brandStats, b) = CountsOrZero(a.brandStats, b)
             /\ DayBrandCounts(r, now, b) = DayBrandCounts(a, now, b)
       /\ \A d \in days \ {now} :
             d \in DOMAIN r.dailyStats /\ r.dailyStats[d] = a.dailyStats[d]

\* the step of call t that runs trackEvent on the object loaded
TrackComputes(t) ==
    /\ tracks[t].pc \in {"exists", "saveInitial", "download"}
    /\ tracks'[t].pc = "save"

RetainedDays(a) == {d \in DOMAIN a.dailyStats : d >= now - RetentionDays}

\* C22 (as amended): a trackEvent call counts its event once in the global
\* total, today's stats, the brand's totals and today's stats of the brand
\* (not at all when the eventType is not recognized), leaves every other
\* counter of the retained days as it was loaded, and a successful save
\* makes the result the stored blob.
TrackEventCounts ==
    /\ [][\A t \in TrackCalls :
             TrackComputes(t) =>
                 LET a == IF DownloadReturns(t, TRUE) THEN stats.value ELSE INITIAL_STATS
                 IN EventCounted(a, tracks'[t].content, tracks[t].eventType,
                                 tracks[t].brand, RetainedDays(a))]_vars
    /\ [][\A t \in TrackCalls :
             (tracks[t].pc = "save" /\ tracks'[t].status = 200) =>
                 stats' = [exists |-> TRUE, value |-> tracks[t].content]]_vars

TrackEventWitness ==
    \E t \in TrackCalls :
        /\ tracks[t].pc = "save"
        /\ tracks[t].eventType = "download"
        /\ tracks[t].brand = "acme"
        /\ stats.exists
        /\ DOMAIN stats.value.dailyStats = {now - RetentionDays - 1}
        /\ stats.value.total["downloads"] = 1
        /\ tracks[t].content.total["downloads"] = 2
        /\ DOMAIN tracks[t].content.dailyStats = {now}
        /\ tracks[t].content.dailyStats[now].brands["acme"]["downloads"] = 1

\* C22 (as stated): the same, with every other counter of the object loaded
\* unchanged, those of all its days among them.
TrackEventKeepsAllCounters ==
    [][\A t \in TrackCalls :
          TrackComputes(t) =>
              LET a == IF DownloadReturns(t, TRUE) THEN stats.value ELSE INITIAL_STATS
              IN EventCounted(a, tracks'[t].content, tracks[t].eventType,
                              tracks[t].brand, DOMAIN a.dailyStats)]_vars

\* the step in which call c, a GET, is answered
GetAnswered(c) ==
    /\ shares[c].pc \in {"exists", "download"}
    /\ shares'[c].pc = "done"

\* C23 (as amended): a GET with a shareId under which nothing is stored is
\* answered 404; one whose conversation is read is answered 410 when its
\* expiresAt has passed and 200 with the conversation otherwise; one whose
\* read of the store fails is answered 404; no GET is answered 200 for a
\* conversation whose expiry has passed.
ShareGetStatus ==
    [][\A c \in ShareCalls :
          LET id == shares[c].shareId
          IN /\ (SharedExists(c, TRUE) /\ id \notin DOMAIN shared) =>
                    shares'[c].status = 404
             /\ SharedDownloaded(c, TRUE) =>
                    IF now > shared[id].expiresAt
                    THEN shares'[c].status = 410
                    ELSE shares'[c].status = 200 /\ shares'[c].data = shared[id]
             /\ ((SharedExists(c, FALSE) \/ SharedDownloaded(c, FALSE)) /\ GetAnswered(c)) =>
                    shares'[c].status = 404
             /\ (GetAnswered(c) /\ shares'[c].status = 200) =>
                    id \in DOMAIN shared /\ now <= shared[id].expiresAt]_vars

ShareGetWitness ==
    \E c, d \in ShareCalls :
        /\ shares[c].pc = "done"
        /\ shares[c].status = 410
        /\ shares[c].shareId \in DOMAIN shared
        /\ now > shared[shares[c].shareId].expiresAt
        /\ shares[d].status = 200

\* C23 (as stated): a GET is answered 404 when nothing is stored under the
\* shareId, 410 when the stored conversation's expiresAt has passed, and 200
\* when it is stored and has not expired.
ShareGetAsStated ==
    [][\A c \in ShareCalls :
          GetAnswered(c) =>
              LET id == shares[c].shareId
              IN shares'[c].status =
                    IF id \notin DOMAIN shared THEN 404
                    ELSE IF now > shared[id].expiresAt THEN 410
                    ELSE 200]_vars

\* the step in which the drain loop hands an entry to generateVideoWithRetry
Dispatches == Len(dispatchLog') > Len(dispatchLog)

\* C24: requestCount never exceeds maxRequestsPerMinute; an entry is
\* dispatched only below the ceiling (the quota check passed, or the loop
\* waited and reset the window), and the counter is incremented, by 1, only
\* when the entry dispatched last has succeeded.
RequestCountBounded ==
    /\ [](requestCount <= maxRequestsPerMinute)
    /\ [][Dispatches =>
             /\ requestCount' < maxRequestsPerMinute
             /\ (requestCount >= maxRequestsPerMinute =>
                    /\ resetCount' = resetCount + 1
                    /\ requestCount' = 0)]_vars
    /\ [][requestCount' > requestCount =>
             /\ requestCount' = requestCount + 1
             /\ dispatchLog' = dispatchLog
             /\ settled'[dispatchLog[Len(dispatchLog)].id] = <<"resolved">>]_vars

RequestCountWitness ==
    /\ Len(dispatchLog) > maxRequestsPerMinute
    /\ resetCount >= 1
    /\ requestCount = 1
    /\ \E i \in 1..Len(dispatchLog) :
          /\ dispatchLog[i].resets = 0
          /\ i = maxRequestsPerMinute
          /\ settled[dispatchLog[i].id] = <<"resolved">>

\* the step in which a call of model.generateContent starts
ProviderCallStarts ==
    \E i \in 1..Len(loops') :
        /\ loops'[i].pc = "calling"
        /\ \/ i > Len(loops)
           \/ loops[i].pc # "calling"
           \/ loops[i].id # loops'[i].id
           \/ loops[i].variant # loops'[i].variant

\* C25: no entry is dispatched, and no provider call starts, less than
\* minRequestInterval after lastRequestTime; a drain loop that sleeps for the
\* interval sleeps until lastRequestTime + minRequestInterval; and
\* lastRequestTime is the time of the last success.
MinimumInterval ==
    /\ [][(Dispatches \/ ProviderCallStarts) =>
             /\ lastRequestTime' = lastRequestTime
             /\ now - lastRequestTime >= minRequestInterval]_vars
    /\ [](\A i \in 1..Len(loops) :
             loops[i].pc = "rateWait" =>
                 loops[i].wakeAt = lastRequestTime + minRequestInterval)
    /\ [][lastRequestTime' # lastRequestTime =>
             /\ lastRequestTime' = now
             /\ \E id \in Enqueued :
                   settled[id] = <<>> /\ settled'[id] = <<"resolved">>]_vars

MinimumIntervalWitness ==
    /\ Len(dispatchLog) >= 2
    /\ dispatchLog[2].t = lastRequestTime + minRequestInterval
    /\ settled[dispatchLog[1].id] = <<"resolved">>
    /\ \E i \in 1..Len(loops) : loops[i].pc = "calling" /\ loops[i].id = dispatchLog[2].id

\* C26: no entry is dispatched at an age above QueueTimeout: when the drain
\* loop hands an entry to generateVideoWithRetry, which starts its first
\* provider call, now minus the entry's timestamp is at most QueueTimeout,
\* whatever sleeps came between the staleness test and the dispatch.
NoStaleDispatch ==
    [][Dispatches =>
          \E i \in 1..Len(loops') :
              /\ loops'[i].id = dispatchLog'[Len(dispatchLog')].id
              /\ now - loops'[i].timestamp <= QueueTimeout]_vars

Dispatched(id) == \E k \in 1..Len(dispatchLog) : dispatchLog[k].id = id

\* C27: for one entry generateVideoWithRetry runs the single-video step at
\* most maxRetries times (attempts 0 .. maxRetries - 1); the entry is
\* resolved in the step in which an attempt succeeds, with its artifact, and
\* no provider call is made for it afterwards; and every entry dispatched is
\* eventually settled: resolved with an artifact or rejected with an error,
\* never resolved without a result.
RetryBounded ==
    /\ [](\A i \in 1..Len(loops) : loops[i].attempt < maxRetries)
    /\ [](\A id \in Ids : \A k \in 1..Len(settled[id]) : settled[id][k] # "undefined")
    /\ [][\A id \in Ids :
             (settled[id] = <<>> /\ settled'[id] = <<"resolved">>) =>
                 \E i \in 1..Len(loops) :
                     /\ loops[i].id = id /\ loops[i].pc = "uploading"
                     /\ loops'[i].pc = "postDelay"]_vars
    /\ [][ProviderCallStarts =>
             \A i \in 1..Len(loops') :
                 loops'[i].pc = "calling" => settled[loops'[i].id] = <<>>]_vars
    /\ \A id \in 1..MaxFairEntries :
          Dispatched(id) ~>
              settled[id] \in {<<"resolved">>, <<"error">>, <<"noVideo">>,
                               <<"quotaExceeded">>}

RetryBoundedWitness ==
    \E i \in 1..Len(loops) :
        /\ loops[i].pc = "postDelay"
        /\ loops[i].attempt = maxRetries - 1
        /\ settled[loops[i].id] = <<"resolved">>

\* the steps in which the attempt of loop i fails: with a quota error (the
\* error of the last variant), or with another error (of the last variant,
\* of a response without a video, or of the upload)
QuotaFailure(i) == ProviderReturns(i, "quota") /\ loops[i].variant = 3

OtherFailure(i) ==
    \/ ProviderReturns(i, "error") /\ loops[i].variant = 3
    \/ ProviderReturns(i, "empty")
    \/ UploadReturns(i, FALSE)

VariantChain ==
    [][\A i \in 1..Len(loops) :
          LET l == loops[i]
          IN /\ ((\E o \in {"empty", "quota", "error"} : ProviderReturns(i, o))
                    /\ l.variant < 3) =>
                    loops'[i] = [l EXCEPT !.variant = l.variant + 1]
             /\ ProviderReturns(i, "video") =>
                    loops'[i] = [l EXCEPT !.pc = "uploading"]]_vars

\* the step in which the promise of entry id is rejected
Fails(id) ==
    /\ settled[id] = <<>>
    /\ settled'[id] # <<>>
    /\ settled'[id][1] \in {"timeout", "error", "noVideo", "quotaExceeded"}

\* C31: only a successful request records the dispatch time and consumes
\* quota: in a step in which an entry is rejected (as stale, or with the
\* error of its last attempt) lastRequestTime is unchanged and requestCount
\* is not incremented, and both stay as they are until an entry is resolved.
FailureRecordsNothing ==
    /\ [][(\E id \in Ids : Fails(id)) =>
             /\ lastRequestTime' = lastRequestTime
             /\ requestCount' <= requestCount
             /\ requestCount' \in {requestCount, 0}]_vars
    /\ [][(\A id \in Ids : settled'[id] = settled[id] \/ Fails(id)) =>
             /\ lastRequestTime' = lastRequestTime
             /\ requestCount' <= requestCount]_vars

FailureRecordsNothingWitness ==
    \E a, b, c \in Enqueued :
        /\ settled[a] = <<"resolved">>
        /\ settled[b] \in {<<"error">>, <<"noVideo">>, <<"quotaExceeded">>}
        /\ settled[c] = <<"timeout">>
        /\ a < b /\ b < c
        /\ resetCount = 0
        /\ requestCount = 1
        /\ lastRequestTime > 0
        /\ lastRequestTime < now - RetryDelay

\* the text after the first tok of reply up to the end of its line
RestOfLine(reply, tok) ==
    LET i == IndexFrom(reply, {tok}, 1)
        j == IndexFrom(reply, {NL}, i)
    IN Trim(SubSeq(reply, i + 1, j - 1))

\* the step in which the handler of request r, given the oracle's reply
\* (which it keeps for the response), starts generation
Generates(r) ==
    /\ reqs[r].rev = "chat" /\ reqs[r].pc = "oracle"
    /\ reqs'[r].pc \in {"vertexCall", "awaitVideo"}

\* the reply contains one sentinel, once
OneDirective(reply) ==
    Cardinality({i \in 1..Len(reply) : reply[i] \in {GI, GV}}) = 1

\* C32: when the reply contains a sentinel (here: one, once) and generation
\* starts, the prompt is the text after the sentinel up to the end of that
\* line (or of the reply), trimmed; text on later lines is not part of it;
\* nothing after the sentinel gives the empty prompt, and the adapter is
\* still called.
PromptIsRestOfLine ==
    [][\A r \in Requests :
          LET reply == reqs'[r].reply
          IN (Generates(r) /\ OneDirective(reply)) =>
                 reqs'[r].prompt =
                     RestOfLine(reply, IF Includes(reply, GI) THEN GI ELSE GV)]_vars

\* C33: when generation occurs, video generation is chosen exactly when the
\* message contains a word of the video vocabulary or the reply contains
\* "video" (in any case, so also the sentinel GENERATE_VIDEO:); otherwise
\* image generation is chosen, also when the reply speaks of rotation.
VideoChoice ==
    [][\A r \in Requests :
          Generates(r) =>
              LET reply == reqs'[r].reply
                  video == \/ reqs[r].msg \cap VideoWords # {}
                           \/ Includes(reply, "video")
                           \/ Includes(reply, GV)
              IN /\ video => /\ reqs'[r].pc = "awaitVideo"
                             /\ reqs'[r].adapters = <<"video">>
                             /\ Len(requestQueue') + Len(loops') >
                                    Len(requestQueue) + Len(loops)
                 /\ ~video => /\ reqs'[r].pc = "vertexCall"
                              /\ reqs'[r].adapters = <<"vertex">>
                              /\ UNCHANGED vmVars]_vars

VideoChoiceWitness ==
    \E r \in Requests :
        /\ reqs[r].pc = "vertexCall"
        /\ Includes(reqs[r].reply, "rotating")
        /\ Includes(reqs[r].reply, GI)

\* C33 as stated: the vocabulary counts in the reply as it does in the
\* message.
VideoChoiceAsStated ==
    [][\A r \in Requests :
          Generates(r) =>
              LET reply == reqs'[r].reply
              IN (reqs'[r].pc = "awaitVideo") <=>
                    \/ reqs[r].msg \cap VideoWords # {}
                    \/ \E i \in 1..Len(reply) :
                          reply[i] \in {"video", "rotating", GV}]_vars

\* C34: a conversation stored by the share endpoint contains no message of
\* the system role.
NoSystemMessageShared ==
    \A id \in DOMAIN shared :
        \A i \in 1..Len(shared[id].messages) : shared[id].messages[i].role # "system"

Handled(id) == \E k \in 1..Len(handled) : handled[k] = id

\* C35: the queue never strands an entry: whenever control is back at the
\* event loop and no drain loop is running (processing is false, and it is
\* true exactly while a loop is suspended) the queue is empty; and an entry
\* enqueued at any moment, also while the loop handles its last entry or
\* sleeps its cool-down, is eventually taken off the queue.
NeverStranded ==
    /\ [](~processing => requestQueue = <<>>)
    /\ [](processing <=> Len(loops) = 1)
    /\ [](\A id \in Enqueued :
             \/ Handled(id)
             \/ \E k \in 1..Len(requestQueue) : requestQueue[k].id = id
             \/ \E i \in 1..Len(loops) : loops[i].id = id)
    /\ \A id \in 1..MaxFairEntries : (id \in Enqueued) ~> Handled(id)

NeverStrandedWitness ==
    /\ Len(loops) = 1
    /\ loops[1].pc = "postDelay"
    /\ Len(requestQueue) = 1
    /\ requestQueue[1].timestamp > lastRequestTime

\* C36: every request to the chat handler gets exactly one response, with
\* status 200, 400, 405 or 500, on every path: a handler that has ended has
\* sent one, and the response of a request, once sent, is not sent again.
ExactlyOneResponse ==
    /\ [](\A r \in Requests :
             reqs[r].pc \in {"done", "rejected"} =>
                 reqs[r].response.status \in {200, 400, 405, 500})
    /\ [][\A r \in Requests :
             reqs[r].response.status # 0 => reqs'[r].response = reqs[r].response]_vars

\* the trackEvent calls that have completed with an event of counter k
Completed(k) ==
    {t \in TrackCalls : /\ tracks[t].pc = "done" /\ tracks[t].status = 200
                        /\ k \in CounterOf(tracks[t].eventType)}

\* every call made so far has completed successfully
AllCompleted ==
    \A t \in TrackCalls :
        tracks[t].pc = "idle" \/ (tracks[t].pc = "done" /\ tracks[t].status = 200)

\* C37: after any interleaving of trackEvent calls that have all completed
\* successfully, each persisted total is its value before the calls plus
\* the number of completed events of its type.
NoLostIncrement ==
    (AllCompleted /\ stats.exists) =>
        \A k \in StatKeys :
            stats.value.total[k] = InitialStats.total[k] + Cardinality(Completed(k))

\* C38: the persisted totals never decrease, whatever the trackEvent calls
\* and whether or not their read of the blob fails.
TotalsNeverDecrease ==
    [][stats.exists =>
          \A k \in StatKeys : stats'.value.total[k] >= stats.value.total[k]]_vars

\* C39: when processReferenceImage or the upload of the reference image
\* fails, the handler responds 400 in that step; the oracle has not been
\* consulted and no generation adapter has been called for the request, and
\* none is afterwards, the request being ended; the video queue is left
\* alone.
ReferenceFailureIs400 ==
    /\ [][\A r \in Requests :
             (ReferenceStep(r, FALSE) /\ reqs[r].pc \in {"refProcess", "refUpload"}) =>
                 /\ reqs'[r].pc = "done"
                 /\ reqs'[r].response.status = 400
                 /\ reqs'[r].response.imageUrl = "null"
                 /\ reqs'[r].response.videoUrl = "null"
                 /\ reqs[r].sent = <<>> /\ reqs'[r].sent = <<>>
                 /\ reqs[r].adapters = <<>> /\ reqs'[r].adapters = <<>>
                 /\ UNCHANGED vmVars]_vars
    /\ [][\A r \in Requests : reqs[r].pc = "done" => reqs'[r] = reqs[r]]_vars

ReferenceFailureWitness ==
    \E r \in Requests :
        /\ reqs[r].pc = "done"
        /\ reqs[r].response.status = 400
        /\ reqs[r].response.error = "Failed to process reference image"
        /\ nextId = 1

====
